---- MODULE Spec2Model ----
(***************************************************************************)
(* The retrieval pipeline of satellite-precipitation: the Nasa class of    *)
(* get_data.py with the registry of base.py.                               *)
(*                                                                         *)
(*   Nasa.__init__       validates mission and product, logs in            *)
(*   Nasa.get_data       expands the dates, lists the catalog of every     *)
(*                       date on a ThreadPool(30) and returns the URLs     *)
(*                       (line 214; the dispatch that follows it in the    *)
(*                       file is commented out)                            *)
(*   __get_files_urls    one listing request, filtered                     *)
(*   __download_files    index mapping, bounding-box check, query, and     *)
(*                       the retry loop around open / isfile / to_netcdf   *)
(*                                                                         *)
(* get_data never calls __download_files, so the model lets the caller     *)
(* invoke it, on worker threads, for URLs that get_data returned.  Degrees *)
(* are integers in hundredths of a degree, and the binary64 rounding of a  *)
(* distance is kept where it decides between two cells equally near; an    *)
(* entry ID and a URL are sequences of tokens, '.xml' being one token.     *)
(***************************************************************************)
EXTENDS Integers, Sequences, FiniteSets, TLC

\* ------------------------------------------------------------------ bounds
NumWorkers == 2      \* concurrent invocations of __download_files
MaxDay == 2          \* from_date and to_date range over the days 1..MaxDay
MaxEntries == 3      \* entries of a listing document, in SpecResolve
OpenCap == 6         \* open attempts one fetch may make in the model

\* --------------------------------------------------------------- registry
\* base.py: the template of a product is kept as its text up to the file
\* name (os.path.split()[0]) and the set of placeholders of the whole text.
ProductTemplate ==
    [placeholders |-> {"mission", "product", "version", "year", "dayofyear",
                       "date", "time_start", "time_end", "minutes"}]

mission_product_dict ==
    [gpm |-> [base_url |-> "https://gpm1.gesdisc.eosdis.nasa.gov:443",
              process_level |-> "GPM_L3",
              version |-> 6,
              products |-> [p \in {"3IMERGHHE", "3IMERGHHL", "3IMERGHH"} |->
                               ProductTemplate]]]

master_datasets ==
    [p \in {"3IMERGHHE", "3IMERGHHL", "3IMERGHH"} |->
        <<"precipitationQualityIndex", "IRkalmanFilterWeight",
          "precipitationCal", "HQprecipitation",
          "probabilityLiquidPrecipitation", "randomError", "IRprecipitation">>]

Range(s) == {s[i] : i \in DOMAIN s}

\* ----------------------------------------------------------------- inputs
MissionInputs == {"gpm", "trmm"}
ProductInputs == {"3IMERGHH", "3B42"}
Days == 1..MaxDay
Workers == 1..NumWorkers
Paths == {"p1", "p2"}

\* Bounding boxes [min_lat, max_lat, min_lon, max_lon]: the box of
\* testlib.py, one whose longitudes fall in one cell, one whose latitudes
\* are inverted.
BBoxInputs ==
    {[min_lat |-> -3300, max_lat |-> 300, min_lon |-> -7200, max_lon |-> -3500],
     [min_lat |-> -3300, max_lat |-> 300, min_lon |-> -7199, max_lon |-> -7191],
     [min_lat |-> 300, max_lat |-> -3300, min_lon |-> -7200, max_lon |-> -3500]}

\* The bounds a caller may pass on each axis: those of the boxes above, 0.1
\* (midway between the centres 0.05 and 0.15), and bounds beyond the grid's
\* extent (185 W, 95 N).  MapBBoxInputs are the boxes made of them.
LonInputs == {-18500, -7200, -7199, -7191, -3500, 10}
LatInputs == {-3300, 10, 300, 9500}
MapBBoxInputs ==
    [min_lat : LatInputs, max_lat : LatInputs, min_lon : LonInputs, max_lon : LonInputs]

\* The variable lists a caller asks for: one of the master list, and one
\* with a name the master list of no product holds.
DatasetInputs ==
    {{"precipitationCal"}, {"precipitationCal", "HQprecipSource"}}

\* Entry IDs of a listing: a granule's data entry and the entries that
\* carry the listing-document marker.
DataId(g) == <<"/opendap/GPM_L3/", g, ".HDF5">>
XmlId(g) == <<"/opendap/GPM_L3/", g, ".HDF5", ".xml">>
EntryIds == {DataId("g1"), XmlId("g1"), DataId("g2"), <<"/opendap/GPM_L3/", "g2", ".xml", ".HDF5">>}

\* The server's listing of each day, as the pipeline sees it.
ServerCatalog ==
    [d \in Days |->
        IF d = 1 THEN <<DataId("g1"), XmlId("g1")>>
        ELSE <<XmlId("g2"), DataId("g2")>>]

\* The '{dayofyear:03}' directory of a day's entries (line 96), and the
\* listing documents a day's directory may hold: two data entries around a
\* marker entry, or a marker entry and then two data entries in the other
\* order.
dayofyear == <<"001", "002", "003", "004">>
DayDataId(d, g) == <<"/opendap/GPM_L3/", dayofyear[d], g, ".HDF5">>
DayXmlId(d, g) == <<"/opendap/GPM_L3/", dayofyear[d], g, ".HDF5", ".xml">>
DayListings(d) ==
    {<<DayDataId(d, "g1"), DayXmlId(d, "g1"), DayDataId(d, "g2")>>,
     <<DayXmlId(d, "g2"), DayDataId(d, "g2"), DayDataId(d, "g1")>>}

BoundedSeq(S, n) == UNION {[1..k -> S] : k \in 0..n}

\* ------------------------------------------------------------------ state
VARIABLES
    dataset_types, \* the variables the caller asks for in this retrieval
    self,        \* the Nasa object: [state, mission, product, err]
    logins,      \* setup_session calls made
    catalog,     \* the server's listing document of every day
    gd,          \* the get_data call: [pc, dates, bbox, result, err]
    tasks,       \* the listing pool's tasks, one per date: [st, urls, rank]
    listGets,    \* requests.get calls made, per day
    fw,          \* the __download_files invocation of every worker
    cache,       \* the cache file at every path
    cacheWrites  \* to_netcdf calls that created or replaced the file, per path

vars == <<dataset_types, self, logins, catalog, gd, tasks, listGets, fw, cache, cacheWrites>>

\* ------------------------------------------------------------ Nasa.__init__
NoObject == [state |-> "none", mission |-> "", product |-> "", err |-> ""]

\* lines 66-69
Nasa_init_bad_mission(mission, product) ==
    /\ self.state = "none"
    /\ mission \notin DOMAIN mission_product_dict
    /\ self' = [state |-> "raised", mission |-> mission, product |-> product,
                err |-> "ValueError"]
    /\ UNCHANGED <<dataset_types, logins, catalog, gd, tasks, listGets, fw, cache, cacheWrites>>

\* lines 74-77
Nasa_init_bad_product(mission, product) ==
    /\ self.state = "none"
    /\ mission \in DOMAIN mission_product_dict
    /\ product \notin DOMAIN mission_product_dict[mission].products
    /\ self' = [state |-> "raised", mission |-> mission, product |-> product,
                err |-> "ValueError"]
    /\ UNCHANGED <<dataset_types, logins, catalog, gd, tasks, listGets, fw, cache, cacheWrites>>

\* lines 66-92: both checks pass, then setup_session logs in (or raises)
Nasa_init_ok(mission, product) ==
    /\ self.state = "none"
    /\ mission \in DOMAIN mission_product_dict
    /\ product \in DOMAIN mission_product_dict[mission].products
    /\ logins' = logins + 1
    /\ \E loggedIn \in BOOLEAN :
          self' = [state |-> IF loggedIn THEN "ready" ELSE "raised",
                   mission |-> mission, product |-> product,
                   err |-> IF loggedIn THEN "" ELSE "LoginError"]
    /\ UNCHANGED <<dataset_types, catalog, gd, tasks, listGets, fw, cache, cacheWrites>>

Nasa_init ==
    \E mission \in MissionInputs, product \in ProductInputs :
        \/ Nasa_init_bad_mission(mission, product)
        \/ Nasa_init_bad_product(mission, product)
        \/ Nasa_init_ok(mission, product)

\* -------------------------------------------------------- __get_files_urls
\* a test of the ID's ending only
IsDataBySuffix(id) == id = <<>> \/ id[Len(id)] # ".xml"

\* line 101: '.xml' not in c.attrib['ID']
IsData(id) == \A i \in DOMAIN id : id[i] # ".xml"

\* line 101: base_url + ID for the entries kept, in document order
get_files_urls(base_url, doc) ==
    LET kept == SelectSeq(doc, IsData)
    IN  [k \in 1..Len(kept) |-> <<base_url>> \o kept[k]]

\* ------------------------------------------------------------ Nasa.get_data
ListPoolSize == 30

NoCall == [pc |-> "idle", dates |-> <<>>, bbox |-> [none |-> TRUE],
           result |-> <<>>, err |-> ""]

\* pd.date_range(from_date, to_date), line 198: empty when from > to
date_range(from, to) ==
    IF from > to THEN <<>> ELSE [i \in 1..(to - from + 1) |-> from + i - 1]

RECURSIVE chain(_)
\* itertools.chain.from_iterable, line 207
chain(lists) ==
    IF lists = <<>> THEN <<>> ELSE Head(lists) \o chain(Tail(lists))

\* lines 192-206: the call up to the hand-over to the listing pool.  Every
\* template of the registry holds 'dayofyear', the branch of line 203.
get_data_call(from, to, bbox) ==
    /\ self.state = "ready"
    /\ gd.pc = "idle"
    /\ LET file_path == mission_product_dict[self.mission].products[self.product]
           dates == date_range(from, to)
       IN  /\ "dayofyear" \in file_path.placeholders
           /\ gd' = [gd EXCEPT !.pc = "listing", !.dates = dates, !.bbox = bbox]
           /\ tasks' = [i \in 1..Len(dates) |->
                          [st |-> "queued", urls |-> <<>>, rank |-> 0]]
    /\ UNCHANGED <<dataset_types, self, logins, catalog, listGets, fw, cache, cacheWrites>>

InFlight == {i \in DOMAIN tasks : tasks[i].st = "inflight"}

\* the tasks that have ended; a task's rank is its place among them
Ended == {i \in DOMAIN tasks : tasks[i].st \in {"done", "failed"}}

\* line 99, on a pool thread: the tasks are taken in input order, at most
\* ListPoolSize at a time
list_request(i) ==
    /\ gd.pc = "listing"
    /\ tasks[i].st = "queued"
    /\ \A j \in 1..(i - 1) : tasks[j].st # "queued"
    /\ Cardinality(InFlight) < ListPoolSize
    /\ tasks' = [tasks EXCEPT ![i].st = "inflight"]
    /\ listGets' = [listGets EXCEPT ![gd.dates[i]] = @ + 1]
    /\ UNCHANGED <<dataset_types, self, logins, catalog, gd, fw, cache, cacheWrites>>

\* lines 100-102: the document parses and the URLs are returned
list_response(i) ==
    /\ gd.pc = "listing"
    /\ tasks[i].st = "inflight"
    /\ tasks' = [tasks EXCEPT
                   ![i] = [st |-> "done",
                           urls |-> get_files_urls(
                               mission_product_dict[self.mission].base_url,
                               catalog[gd.dates[i]]),
                           rank |-> Cardinality(Ended) + 1]]
    /\ UNCHANGED <<dataset_types, self, logins, catalog, gd, listGets, fw, cache, cacheWrites>>

\* lines 99-101: requests.get or etree.fromstring raises
list_failure(i) ==
    /\ gd.pc = "listing"
    /\ tasks[i].st = "inflight"
    /\ tasks' = [tasks EXCEPT ![i].st = "failed",
                              ![i].rank = Cardinality(Ended) + 1]
    /\ UNCHANGED <<dataset_types, self, logins, catalog, gd, listGets, fw, cache, cacheWrites>>

\* the lists in the order in which the tasks ended
imap_unordered(ts) ==
    [k \in DOMAIN ts |-> ts[CHOOSE i \in DOMAIN ts : ts[i].rank = k].urls]

\* line 207: ThreadPool.starmap hands back every task's list, in the order
\* of its input
starmap(ts) == [i \in DOMAIN ts |-> ts[i].urls]

\* a call that goes on once every task has ended, failed or not
all_ended(ts) == \A i \in DOMAIN ts : ts[i].st \in {"done", "failed"}

\* line 207: starmap returns only when no task has raised
all_succeeded(ts) == \A i \in DOMAIN ts : ts[i].st = "done"

\* lines 207 and 214: get_data returns the flattened URL list
get_data_return ==
    /\ gd.pc = "listing"
    /\ all_succeeded(tasks)
    /\ gd' = [gd EXCEPT !.pc = "returned", !.result = chain(starmap(tasks))]
    /\ UNCHANGED <<dataset_types, self, logins, catalog, tasks, listGets, fw, cache, cacheWrites>>

\* line 207: starmap re-raises a task's exception once every task has ended
get_data_raise ==
    /\ gd.pc = "listing"
    /\ \A i \in DOMAIN tasks : tasks[i].st \in {"done", "failed"}
    /\ \E i \in DOMAIN tasks : tasks[i].st = "failed"
    /\ gd' = [gd EXCEPT !.pc = "raised", !.err = "ListingError"]
    /\ UNCHANGED <<dataset_types, self, logins, catalog, tasks, listGets, fw, cache, cacheWrites>>

get_data ==
    \/ \E from \in Days, to \in Days, bbox \in BBoxInputs :
          get_data_call(from, to, bbox)
    \/ \E i \in DOMAIN tasks : list_request(i)
    \/ \E i \in DOMAIN tasks : list_response(i)
    \/ \E i \in DOMAIN tasks : list_failure(i)
    \/ get_data_return
    \/ get_data_raise

\* --------------------------------------------------------- __download_files
Abs(a) == IF a < 0 THEN -a ELSE a

\* np.round(np.arange(-179.95, 180, 0.1), 2) and its latitude twin, lines
\* 107-108, in hundredths of a degree
LonCells == 3600
LatCells == 1800
range_lon == [i \in 0..(LonCells - 1) |-> -17995 + 10 * i]
range_lat == [i \in 0..(LatCells - 1) |-> -8995 + 10 * i]

\* Bounds midway between two cell centres at which the binary64 distance to
\* the upper centre is the smaller one: 0.15 - 0.1 = 0.04999999999999999
\* while 0.1 - 0.05 = 0.05.  (At -72, -35, -33 and 3 the two binary64
\* distances are equal.)
UpperNearer == {10}

\* np.abs(range - bound) in binary64, lines 109-112, as an order: twice the
\* exact distance in hundredths, less one where rounding makes the
\* difference to an upper centre smaller than the exact one
binary64_distance(cell, bound) ==
    2 * Abs(cell - bound) - (IF bound \in UpperNearer /\ cell > bound THEN 1 ELSE 0)

\* the last index at which the distance is least
nearest_cell_last(range, n, bound) ==
    LET D(i) == binary64_distance(range[i], bound)
    IN  CHOOSE i \in 0..(n - 1) :
            /\ i > 0 => D(i) <= D(i - 1)
            /\ i < n - 1 => D(i) < D(i + 1)
            /\ \A j \in 0..(n - 1) : D(i) <= D(j)
            /\ \A j \in (i + 1)..(n - 1) : D(j) > D(i)

\* numpy's argmin of np.abs(range - bound), lines 109-112: the first index
\* at which the distance is least.  (The first conjunct follows from the
\* second; it is there to discard most indices early.)
nearest_cell(range, n, bound) ==
    LET D(i) == binary64_distance(range[i], bound)
    IN  CHOOSE i \in 0..(n - 1) :
            /\ i < n - 1 => D(i) <= D(i + 1)
            /\ \A j \in 0..(n - 1) : D(i) <= D(j)
            /\ \A j \in 0..(i - 1) : D(j) > D(i)

\* lines 109-112
to_indices(bbox) ==
    [min_lon |-> nearest_cell(range_lon, LonCells, bbox.min_lon),
     max_lon |-> nearest_cell(range_lon, LonCells, bbox.max_lon),
     min_lat |-> nearest_cell(range_lat, LatCells, bbox.min_lat),
     max_lat |-> nearest_cell(range_lat, LatCells, bbox.max_lat)]

\* the index of every bound a caller may pass, computed once, and
\* to_indices(bbox) read from these tables
LonIndexTable == {<<v, nearest_cell(range_lon, LonCells, v)>> : v \in LonInputs}
LatIndexTable == {<<v, nearest_cell(range_lat, LatCells, v)>> : v \in LatInputs}
Lookup(table, v) == (CHOOSE p \in table : p[1] = v)[2]
IndexOf(bbox) ==
    [min_lon |-> Lookup(LonIndexTable, bbox.min_lon),
     max_lon |-> Lookup(LonIndexTable, bbox.max_lon),
     min_lat |-> Lookup(LatIndexTable, bbox.min_lat),
     max_lat |-> Lookup(LatIndexTable, bbox.max_lat)]

\* the two checks with > for >=
bbox_rejected_strict(idx) ==
    idx.min_lon > idx.max_lon \/ idx.min_lat > idx.max_lat

\* lines 114-117: the two checks that raise ValueError
bbox_rejected(idx) ==
    idx.min_lon >= idx.max_lon \/ idx.min_lat >= idx.max_lat

\* lines 124-143: the variables the query may name, in the order of the ifs
QueryChain ==
    <<"precipitationQualityIndex", "IRkalmanFilterWeight", "HQprecipSource",
      "precipitationCal", "precipitationUncal", "HQprecipitation",
      "probabilityLiquidPrecipitation", "HQobservationTime", "randomError",
      "IRprecipitation">>

\* lines 119-147: the subset expressions of the query, then lat, lon, time
build_query(datasets, idx) ==
    LET Asked(v) == v \in datasets
        picked == SelectSeq(QueryChain, Asked)
    IN  [k \in 1..Len(picked) |->
            [var |-> picked[k], lon |-> <<idx.min_lon, idx.max_lon>>,
             lat |-> <<idx.min_lat, idx.max_lat>>]]
        \o <<[var |-> "lat", lon |-> <<>>, lat |-> <<idx.min_lat, idx.max_lat>>],
             [var |-> "lon", lon |-> <<idx.min_lon, idx.max_lon>>, lat |-> <<>>],
             [var |-> "time", lon |-> <<>>, lat |-> <<>>]>>

QueryVars(q) == [k \in 1..Len(q) |-> q[k].var]

\* A dataset, and the content of a cache file: what the server sent for a
\* URL on which attempt.  kind: "ds" a whole dataset, "partial" a file cut
\* short, "old" a file of an earlier run, "absent", "None", "unset".
Blob(kind, url, attempt, names) ==
    [kind |-> kind, url |-> url, attempt |-> attempt, vars |-> names]
Absent == Blob("absent", <<>>, 0, <<>>)
OldFile == Blob("old", <<>>, 0, <<>>)
PyNone == Blob("None", <<>>, 0, <<>>)
Unset == Blob("unset", <<>>, 0, <<>>)

Idle ==
    [pc |-> "idle", url |-> <<>>, path |-> "", datasets |-> {}, err |-> "",
     counter |-> 0, ds |-> Unset, ret |-> Unset, atStart |-> Unset,
     nOpen |-> 0, nSleep |-> 0, nFail |-> 0, nWrite |-> 0]

\* line 150
InitialCounter == 5

\* the handler without its countdown
counter_kept(c) == c

\* line 163
counter_after_failure(c) == c - 1

\* line 157: the file ds.to_netcdf(path) leaves when it succeeds
to_netcdf(ds) == Blob("ds", ds.url, 0, ds.vars)

\* a write that is not guarded by the file test
cache_never_tested(path) == TRUE

\* line 156: not os.path.isfile(path)
cache_missing(path) == cache[path].kind = "absent"

\* lines 104-117: the call, with a box the checks reject
download_files_reject(w, url, path) ==
    /\ gd.pc = "returned"
    /\ fw[w].pc = "idle"
    /\ url \in Range(gd.result)
    /\ bbox_rejected(IndexOf(gd.bbox))
    /\ fw' = [fw EXCEPT ![w] = [Idle EXCEPT !.pc = "raised", !.url = url,
                 !.path = path, !.datasets = dataset_types, !.err = "ValueError",
                 !.atStart = cache[path]]]
    /\ UNCHANGED <<dataset_types, self, logins, catalog, gd, tasks, listGets, cache, cacheWrites>>

\* lines 104-150: the call up to the loop
download_files_call(w, url, path) ==
    /\ gd.pc = "returned"
    /\ fw[w].pc = "idle"
    /\ url \in Range(gd.result)
    /\ ~bbox_rejected(IndexOf(gd.bbox))
    /\ fw' = [fw EXCEPT ![w] = [Idle EXCEPT !.pc = "open", !.url = url,
                 !.path = path, !.datasets = dataset_types,
                 !.counter = InitialCounter, !.atStart = cache[path]]]
    /\ UNCHANGED <<dataset_types, self, logins, catalog, gd, tasks, listGets, cache, cacheWrites>>

\* lines 160-164 after a failure in the try block: count down, sleep, and
\* leave the loop (falling off the end of the function) at zero
Handled(f) ==
    LET c == counter_after_failure(f.counter)
    IN  [f EXCEPT !.counter = c, !.nFail = @ + 1, !.nSleep = @ + 1,
                  !.pc = IF c > 0 THEN "open" ELSE "done",
                  !.ret = IF c > 0 THEN @ ELSE PyNone]

\* lines 153-155: the dataset the remote open gives on this attempt
Opened(f) ==
    [f EXCEPT !.nOpen = @ + 1,
              !.ds = Blob("ds", f.url, f.nOpen + 1,
                          QueryVars(build_query(f.datasets, IndexOf(gd.bbox))))]

\* lines 153-156: the remote dataset opens and the file test finds no
\* file.  (The open touches nothing the workers share, so it is one step
\* with the test that follows it; the write is a later step.)
open_isfile_miss(w) ==
    /\ fw[w].pc = "open"
    /\ fw[w].counter > 0
    /\ fw[w].nOpen < OpenCap
    /\ cache_missing(fw[w].path)
    /\ fw' = [fw EXCEPT ![w] = [Opened(fw[w]) EXCEPT !.pc = "write"]]
    /\ UNCHANGED <<dataset_types, self, logins, catalog, gd, tasks, listGets, cache, cacheWrites>>

\* lines 153-156 and 158-159: the remote dataset opens, the file test
\* finds the file, and the dataset is returned
open_isfile_hit(w) ==
    /\ fw[w].pc = "open"
    /\ fw[w].counter > 0
    /\ fw[w].nOpen < OpenCap
    /\ ~cache_missing(fw[w].path)
    /\ fw' = [fw EXCEPT ![w] = [Opened(fw[w]) EXCEPT !.pc = "done", !.counter = 0,
                                   !.ret = Opened(fw[w]).ds]]
    /\ UNCHANGED <<dataset_types, self, logins, catalog, gd, tasks, listGets, cache, cacheWrites>>

\* lines 153-155 raise, then 160-164
open_fail(w) ==
    /\ fw[w].pc = "open"
    /\ fw[w].counter > 0
    /\ fw[w].nOpen < OpenCap
    /\ fw' = [fw EXCEPT ![w] = Handled([fw[w] EXCEPT !.nOpen = @ + 1])]
    /\ UNCHANGED <<dataset_types, self, logins, catalog, gd, tasks, listGets, cache, cacheWrites>>

\* line 157 writes the file, lines 158-159 return the dataset
write_ok(w) ==
    /\ fw[w].pc = "write"
    /\ cache' = [cache EXCEPT ![fw[w].path] = to_netcdf(fw[w].ds)]
    /\ cacheWrites' = [cacheWrites EXCEPT ![fw[w].path] = @ + 1]
    /\ fw' = [fw EXCEPT ![w].pc = "done", ![w].counter = 0, ![w].ret = fw[w].ds,
                        ![w].nWrite = @ + 1]
    /\ UNCHANGED <<dataset_types, self, logins, catalog, gd, tasks, listGets>>

\* line 157 raises before the file is created, then 160-164
write_fail_nofile(w) ==
    /\ fw[w].pc = "write"
    /\ fw' = [fw EXCEPT ![w] = Handled(fw[w])]
    /\ UNCHANGED <<dataset_types, self, logins, catalog, gd, tasks, listGets, cache, cacheWrites>>

\* line 157 raises part-way, the file left cut short, then 160-164
write_fail_partial(w) ==
    /\ fw[w].pc = "write"
    /\ cache' = [cache EXCEPT
                   ![fw[w].path] = [to_netcdf(fw[w].ds) EXCEPT !.kind = "partial"]]
    /\ cacheWrites' = [cacheWrites EXCEPT ![fw[w].path] = @ + 1]
    /\ fw' = [fw EXCEPT ![w] = Handled([fw[w] EXCEPT !.nWrite = @ + 1])]
    /\ UNCHANGED <<dataset_types, self, logins, catalog, gd, tasks, listGets>>

download_files(w) ==
    \/ \E url \in Range(gd.result), path \in Paths :
          \/ download_files_reject(w, url, path)
          \/ download_files_call(w, url, path)
    \/ open_isfile_miss(w)
    \/ open_isfile_hit(w)
    \/ open_fail(w)
    \/ write_ok(w)
    \/ write_fail_nofile(w)
    \/ write_fail_partial(w)

\* --------------------------------------------------------- specifications
\* The pipeline from the constructor on; one caller thread fetches.
PipelineWorkers == {1}

Init ==
    /\ dataset_types \in DatasetInputs
    /\ self = NoObject
    /\ logins = 0
    /\ catalog = ServerCatalog
    /\ gd = NoCall
    /\ tasks = <<>>
    /\ listGets = [d \in Days |-> 0]
    /\ fw = [w \in Workers |-> Idle]
    /\ cache = [p \in Paths |-> Absent]
    /\ cacheWrites = [p \in Paths |-> 0]

Next ==
    \/ Nasa_init
    \/ get_data
    \/ \E w \in PipelineWorkers : download_files(w)

Spec == Init /\ [][Next]_vars

\* The fetches alone: get_data has returned the URLs of day 1, the cache is
\* empty or holds at p1 the file of an earlier run, and every worker thread
\* fetches.
InitFetch ==
    /\ dataset_types = {"precipitationCal"}
    /\ self = [state |-> "ready", mission |-> "gpm", product |-> "3IMERGHH",
               err |-> ""]
    /\ logins = 1
    /\ catalog = ServerCatalog
    /\ \E bbox \in BBoxInputs :
          gd = [pc |-> "returned", dates |-> <<1>>, bbox |-> bbox, err |-> "",
                result |-> get_files_urls(mission_product_dict.gpm.base_url,
                                          ServerCatalog[1])]
    /\ tasks = <<[st |-> "done",
                  urls |-> get_files_urls(mission_product_dict.gpm.base_url,
                                          ServerCatalog[1]),
                  rank |-> 1]>>
    /\ listGets = [d \in Days |-> IF d = 1 THEN 1 ELSE 0]
    /\ fw = [w \in Workers |-> Idle]
    /\ \E old \in {{}, {"p1"}} :
          cache = [p \in Paths |-> IF p \in old THEN OldFile ELSE Absent]
    /\ cacheWrites = [p \in Paths |-> 0]

NextFetch == \E w \in Workers : download_files(w)

SpecFetch == InitFetch /\ [][NextFetch]_vars

\* The retries of one fetch beside another: as SpecFetch, with two of the
\* worker threads fetching.
RetryWorkers == {1, 2}

NextRetry == \E w \in RetryWorkers : download_files(w)

SpecRetry == InitFetch /\ [][NextRetry]_vars

\* The resolver alone: get_data lists day 1, whose listing document is any
\* sequence of at most MaxEntries entries.
InitResolve ==
    /\ dataset_types \in DatasetInputs
    /\ self = [state |-> "ready", mission |-> "gpm", product |-> "3IMERGHH",
               err |-> ""]
    /\ logins = 1
    /\ \E doc \in BoundedSeq(EntryIds, MaxEntries) :
          catalog = [d \in Days |-> IF d = 1 THEN doc ELSE <<>>]
    /\ \E bbox \in BBoxInputs : gd = [NoCall EXCEPT !.pc = "listing",
                                         !.dates = <<1>>, !.bbox = bbox]
    /\ tasks = <<[st |-> "queued", urls |-> <<>>, rank |-> 0]>>
    /\ listGets = [d \in Days |-> 0]
    /\ fw = [w \in Workers |-> Idle]
    /\ cache = [p \in Paths |-> Absent]
    /\ cacheWrites = [p \in Paths |-> 0]

NextResolve ==
    \/ \E i \in DOMAIN tasks : list_request(i)
    \/ \E i \in DOMAIN tasks : list_response(i)
    \/ \E i \in DOMAIN tasks : list_failure(i)
    \/ get_data_return
    \/ get_data_raise

SpecResolve == InitResolve /\ [][NextResolve]_vars

\* The listing alone: an object is there, every day's directory holds one
\* of its listings, and get_data is called with any range of days.
InitList ==
    /\ dataset_types = {"precipitationCal"}
    /\ self = [state |-> "ready", mission |-> "gpm", product |-> "3IMERGHH",
               err |-> ""]
    /\ logins = 1
    /\ catalog \in {c \in [Days -> UNION {DayListings(d) : d \in Days}] :
                        \A d \in Days : c[d] \in DayListings(d)}
    /\ gd = NoCall
    /\ tasks = <<>>
    /\ listGets = [d \in Days |-> 0]
    /\ fw = [w \in Workers |-> Idle]
    /\ cache = [p \in Paths |-> Absent]
    /\ cacheWrites = [p \in Paths |-> 0]

NextList == get_data

SpecList == InitList /\ [][NextList]_vars

\* The index mapping alone: get_data has returned the URLs of day 1 for a
\* box of any bounds, and the caller's thread calls the fetch.
InitMap ==
    /\ dataset_types = {"precipitationCal"}
    /\ self = [state |-> "ready", mission |-> "gpm", product |-> "3IMERGHH",
               err |-> ""]
    /\ logins = 1
    /\ catalog = ServerCatalog
    /\ \E bbox \in MapBBoxInputs :
          gd = [pc |-> "returned", dates |-> <<1>>, bbox |-> bbox, err |-> "",
                result |-> get_files_urls(mission_product_dict.gpm.base_url,
                                          ServerCatalog[1])]
    /\ tasks = <<[st |-> "done",
                  urls |-> get_files_urls(mission_product_dict.gpm.base_url,
                                          ServerCatalog[1]),
                  rank |-> 1]>>
    /\ listGets = [d \in Days |-> IF d = 1 THEN 1 ELSE 0]
    /\ fw = [w \in Workers |-> Idle]
    /\ cache = [p \in Paths |-> Absent]
    /\ cacheWrites = [p \in Paths |-> 0]

NextMap ==
    \/ \E w \in PipelineWorkers, url \in Range(gd.result), path \in Paths :
          download_files_reject(w, url, path)
    \/ \E w \in PipelineWorkers, url \in Range(gd.result), path \in Paths :
          download_files_call(w, url, path)

SpecMap == InitMap /\ [][NextMap]_vars

\* ------------------------------------------------------------ properties
Exists(file) == file.kind \in {"ds", "partial", "old"}
Exhausted(w) == fw[w].pc = "done" /\ fw[w].nFail = InitialCounter
NetworkCalls ==
    logins > 0 \/ (\E d \in Days : listGets[d] > 0) \/ (\E w \in Workers : fw[w].nOpen > 0)
Degenerate(bbox) ==
    ~(/\ IndexOf(bbox).min_lon < IndexOf(bbox).max_lon
      /\ IndexOf(bbox).min_lat < IndexOf(bbox).max_lat)
HasMarker(id) == \E j \in DOMAIN id : id[j] = ".xml"

\* C1: a fetch whose every open attempt failed does not return normally: it
\* ends raised, with GranuleFetchFailed.
C1_ExhaustedFetchRaises ==
    \A w \in Workers :
        (fw[w].nFail = InitialCounter /\ fw[w].ds = Unset) =>
            fw[w].pc = "raised" /\ fw[w].err = "GranuleFetchFailed"

\* C2: a fetch never makes more than 5 open attempts, and one that ends
\* after k < 5 failed attempts has made exactly k + 1 attempts and returns
\* the dataset its attempt k + 1 opened.
C2_RetryBound ==
    \A w \in Workers :
        /\ fw[w].nOpen <= 5
        /\ (fw[w].pc = "done" /\ fw[w].nFail < 5) =>
              /\ fw[w].nOpen = fw[w].nFail + 1
              /\ fw[w].ret.kind = "ds"
              /\ fw[w].ret.url = fw[w].url
              /\ fw[w].ret.attempt = fw[w].nFail + 1

\* C2's case: four attempts failed and the fifth gave the data returned.
C2_Witness ==
    \E w \in Workers :
        fw[w].pc = "done" /\ fw[w].nFail = 4 /\ fw[w].ret.kind = "ds"

\* C3: every cache path is written at most once, whatever the interleaving
\* of the fetches.
C3_WrittenAtMostOnce == \A p \in Paths : cacheWrites[p] <= 1

\* C4: when get_data returns, every granule it resolved has been fetched:
\* its result is the merge of their data, one time entry each.
C4_ResultMergesFetchedGranules ==
    gd.pc = "returned" =>
        \A k \in DOMAIN gd.result :
            \E w \in Workers :
                fw[w].url = gd.result[k] /\ fw[w].pc = "done" /\ fw[w].ret.kind = "ds"

\* C5: once a granule fetch has failed for good, get_data has failed as a
\* whole: it has not returned a result.
C5_FailedFetchFailsRetrieval ==
    (\E w \in Workers : Exhausted(w)) => gd.pc = "raised"

\* C6: a get_data call whose date range is empty ends raised, with
\* EmptyRetrieval; it does not return.
C6_EmptyRangeRaises ==
    (gd.pc \in {"returned", "raised"} /\ gd.dates = <<>>) =>
        gd.pc = "raised" /\ gd.err = "EmptyRetrieval"

\* C7: a constructor call with an unknown mission or product is rejected
\* with no network call made, and a fetch asked for a variable outside the
\* product's master list is rejected before it opens the remote dataset.
C7_InvalidRequestRejectedFirst ==
    /\ (/\ self.state # "none"
        /\ \/ self.mission \notin DOMAIN mission_product_dict
           \/ self.product \notin DOMAIN mission_product_dict[self.mission].products)
       => (self.state = "raised" /\ self.err = "ValueError" /\ ~NetworkCalls)
    /\ \A w \in Workers :
          (/\ fw[w].pc # "idle"
           /\ ~(fw[w].datasets \subseteq Range(master_datasets[self.product])))
          => (fw[w].pc = "raised" /\ fw[w].nOpen = 0)

\* C8 as stated: no catalog listing request is issued for a retrieval whose
\* bounding box resolves to min index >= max index on an axis.
C8_RejectedBeforeListing ==
    (gd.pc # "idle" /\ Degenerate(gd.bbox)) => \A d \in Days : listGets[d] = 0

\* C8 amended: a fetch called with such a box ends raised with ValueError
\* and has made no open attempt, no retry sleep and no cache write.
C8_RejectedBeforeOpen ==
    \A w \in Workers :
        (fw[w].pc # "idle" /\ Degenerate(gd.bbox)) =>
            /\ fw[w].pc = "raised" /\ fw[w].err = "ValueError"
            /\ fw[w].nOpen = 0 /\ fw[w].nSleep = 0 /\ fw[w].nWrite = 0

\* C8's case: the listing was requested and the fetch then rejected the box.
C8_Witness ==
    \E w \in Workers :
        /\ fw[w].pc = "raised" /\ Degenerate(gd.bbox)
        /\ IndexOf(gd.bbox).min_lon = IndexOf(gd.bbox).max_lon
        /\ \E d \in Days : listGets[d] > 0

\* C9: the URLs a listing task returns are base_url + ID for exactly the
\* entries without the '.xml' marker, in the document's order.
C9_ResolverKeepsDataEntries ==
    \A i \in DOMAIN tasks :
        tasks[i].st = "done" =>
            LET doc == catalog[gd.dates[i]]
                data == {k \in DOMAIN doc : ~HasMarker(doc[k])}
                Rank(k) == Cardinality({j \in data : j <= k})
            IN  /\ Len(tasks[i].urls) = Cardinality(data)
                /\ \A k \in data :
                      tasks[i].urls[Rank(k)] =
                          <<mission_product_dict[self.mission].base_url>> \o doc[k]

\* C9's case: a listing of two data entries around a marker entry.
C9_Witness ==
    \E i \in DOMAIN tasks :
        /\ tasks[i].st = "done"
        /\ Len(catalog[gd.dates[i]]) = 3
        /\ HasMarker(catalog[gd.dates[i]][2])
        /\ Len(tasks[i].urls) = 2

\* C10: every step of a fetch that found its cache file in place at its
\* start leaves the cache as it is and writes nothing; and when it ends it
\* has opened the remote dataset, and the data it returns, if any, is what
\* its last open attempt received.
C10_CachedFetchStillOpens ==
    [][\A w \in Workers :
          (Exists(fw'[w].atStart) /\ fw'[w] # fw[w]) =>
              /\ cache' = cache
              /\ fw'[w].nWrite = 0
              /\ fw'[w].pc = "done" =>
                    /\ fw'[w].nOpen >= 1
                    /\ fw'[w].ret.kind = "ds" =>
                          /\ fw'[w].ret.url = fw'[w].url
                          /\ fw'[w].ret.attempt = fw'[w].nOpen]_vars

\* C10's case: the file of an earlier run was there, the fetch opened the
\* remote dataset and returned its data, and the file is the old one.
C10_Witness ==
    \E w \in Workers :
        /\ fw[w].atStart = OldFile /\ fw[w].pc = "done"
        /\ fw[w].ret.kind = "ds" /\ fw[w].nOpen >= 1 /\ fw[w].nWrite = 0
        /\ cache[fw[w].path] = OldFile

\* C11: the URL list get_data returns holds, for the dates in input order
\* and within a date for the entries in the listing's order, the URL of
\* every entry without the marker, whatever order the listing tasks ended in.
C11_ResultInDateThenListingOrder ==
    gd.pc = "returned" =>
        LET Doc(i) == catalog[gd.dates[i]]
            data == {p \in (DOMAIN gd.dates) \X (1..MaxEntries) :
                        p[2] <= Len(Doc(p[1])) /\ ~HasMarker(Doc(p[1])[p[2]])}
            Before(q, p) == q[1] < p[1] \/ (q[1] = p[1] /\ q[2] <= p[2])
            Place(p) == Cardinality({q \in data : Before(q, p)})
        IN  /\ Len(gd.result) = Cardinality(data)
            /\ \A p \in data :
                  gd.result[Place(p)] =
                      <<mission_product_dict[self.mission].base_url>>
                          \o Doc(p[1])[p[2]]

\* C11's case: two dates, the second date's listing ended first, and the
\* URLs of the first date come first.
C11_Witness ==
    /\ gd.pc = "returned"
    /\ Len(gd.dates) = 2
    /\ tasks[2].rank < tasks[1].rank
    /\ Len(gd.result) = 4
    /\ gd.result[1] = tasks[1].urls[1]
    /\ gd.result[3] = tasks[2].urls[1]
    /\ gd.result[1] # gd.result[3]

C13_InFlightWithinPools ==
    /\ Cardinality(InFlight) <= ListPoolSize
    /\ \A w \in Workers :
          fw[w].pc \in {"open", "write"} =>
              gd.pc \notin {"idle", "returned", "raised"}

\* C14: the query of a fetch names exactly the requested variables that the
\* product's master list holds, in the master list's order, and then lat,
\* lon and time; a requested name outside the master list is not in it.
C14_QueryNamesMasterVariables ==
    \A w \in Workers :
        fw[w].ds.kind = "ds" =>
            LET Wanted(v) == v \in fw[w].datasets
            IN  fw[w].ds.vars =
                    SelectSeq(master_datasets[self.product], Wanted)
                        \o <<"lat", "lon", "time">>

OutOfExtent(bbox) ==
    \/ bbox.min_lat < -9000 \/ bbox.max_lat > 9000
    \/ bbox.min_lat > 9000 \/ bbox.max_lat < -9000
    \/ bbox.min_lon < -18000 \/ bbox.max_lon > 18000
    \/ bbox.min_lon > 18000 \/ bbox.max_lon < -18000

\* C15: a fetch called with a box that has a bound beyond 90 degrees of
\* latitude or 180 degrees of longitude ends raised, with the bounding-box
\* error; it is not accepted.
C15_OutOfExtentRejected ==
    \A w \in Workers :
        (fw[w].pc # "idle" /\ OutOfExtent(gd.bbox)) =>
            fw[w].pc = "raised" /\ fw[w].err = "ValueError"

\* the cell i is a nearest one to the bound, and the first of those whose
\* binary64 distance to it is least
FirstNearest(range, n, bound, i) ==
    /\ \A j \in 0..(n - 1) : Abs(range[i] - bound) <= Abs(range[j] - bound)
    /\ \A j \in 0..(n - 1) :
          binary64_distance(range[i], bound) <= binary64_distance(range[j], bound)
    /\ \A j \in 0..(i - 1) :
          binary64_distance(range[j], bound) > binary64_distance(range[i], bound)

\* the cell i is a nearest one to the bound, and the lowest of the cells
\* equally near
LowestNearest(range, n, bound, i) ==
    \A j \in 0..(n - 1) :
        /\ Abs(range[i] - bound) <= Abs(range[j] - bound)
        /\ Abs(range[i] - bound) = Abs(range[j] - bound) => i <= j

\* the index range of box a lies within that of box b on every axis on
\* which a's bounds lie within b's
NestedIndices(a, b) ==
    /\ (b.min_lon <= a.min_lon /\ a.max_lon <= b.max_lon) =>
          /\ IndexOf(b).min_lon <= IndexOf(a).min_lon
          /\ IndexOf(a).max_lon <= IndexOf(b).max_lon
    /\ (b.min_lat <= a.min_lat /\ a.max_lat <= b.max_lat) =>
          /\ IndexOf(b).min_lat <= IndexOf(a).min_lat
          /\ IndexOf(a).max_lat <= IndexOf(b).max_lat

\* C16 as stated: the box a fetch accepted has its index range within that
\* of every accepted box it is nested in, and each of its bounds is mapped
\* to the nearest cell, the lower index when two cells are equally near.
C16_TieToLowerIndex ==
    \A w \in Workers :
        fw[w].pc = "open" =>
            /\ \A b \in MapBBoxInputs :
                  ~bbox_rejected(IndexOf(b)) => NestedIndices(gd.bbox, b)
            /\ LowestNearest(range_lon, LonCells, gd.bbox.min_lon, IndexOf(gd.bbox).min_lon)
            /\ LowestNearest(range_lon, LonCells, gd.bbox.max_lon, IndexOf(gd.bbox).max_lon)
            /\ LowestNearest(range_lat, LatCells, gd.bbox.min_lat, IndexOf(gd.bbox).min_lat)
            /\ LowestNearest(range_lat, LatCells, gd.bbox.max_lat, IndexOf(gd.bbox).max_lat)

\* C16 amended: the box a fetch accepted has its index range within that
\* of every accepted box it is nested in, and each of its bounds is mapped
\* to a nearest cell: the first of the cells whose binary64 distance to the
\* bound is least.
C16_MonotonicFirstNearest ==
    \A w \in Workers :
        fw[w].pc = "open" =>
            /\ \A b \in MapBBoxInputs :
                  ~bbox_rejected(IndexOf(b)) => NestedIndices(gd.bbox, b)
            /\ FirstNearest(range_lon, LonCells, gd.bbox.min_lon, IndexOf(gd.bbox).min_lon)
            /\ FirstNearest(range_lon, LonCells, gd.bbox.max_lon, IndexOf(gd.bbox).max_lon)
            /\ FirstNearest(range_lat, LatCells, gd.bbox.min_lat, IndexOf(gd.bbox).min_lat)
            /\ FirstNearest(range_lat, LatCells, gd.bbox.max_lat, IndexOf(gd.bbox).max_lat)

\* C16's case: an accepted box strictly nested on the longitude axis in
\* another accepted box with a lower min index; its southern bound, 33 S,
\* is midway between two centres and has the lower one's index; its
\* northern bound, 0.1 N, is midway too and has the upper one's index.
C16_Witness ==
    \E w \in Workers :
        /\ fw[w].pc = "open"
        /\ \E b \in MapBBoxInputs :
              /\ ~bbox_rejected(IndexOf(b))
              /\ b.min_lon < gd.bbox.min_lon /\ b.max_lon = gd.bbox.max_lon
              /\ IndexOf(b).min_lon < IndexOf(gd.bbox).min_lon
        /\ gd.bbox.min_lat = -3300
        /\ range_lat[IndexOf(gd.bbox).min_lat] = -3305
        /\ gd.bbox.max_lat = 10
        /\ range_lat[IndexOf(gd.bbox).max_lat] = 15

InLoop(f) == f.pc \in {"open", "write"}

\* the steps a fetch may still take: two per attempt left, one less once
\* the attempt's open is done
StepsLeft(f) ==
    IF f.pc = "open" THEN 2 * f.counter
    ELSE IF f.pc = "write" THEN 2 * f.counter - 1
    ELSE 0

\* the next step of worker w's loop
loop_step(w) ==
    \/ open_isfile_miss(w)
    \/ open_isfile_hit(w)
    \/ open_fail(w)
    \/ write_ok(w)
    \/ write_fail_nofile(w)
    \/ write_fail_partial(w)

\* C17: a fetch in its loop can always take its next step, whatever the
\* other workers are doing; every step it takes leaves it fewer steps to
\* take, its counter is never increased and is lower after every failed
\* attempt; and it makes at most 5 attempts and 5 sleeps.
C17_FetchTerminates ==
    /\ [](\A w \in Workers : InLoop(fw[w]) => ENABLED loop_step(w))
    /\ [][\A w \in Workers :
            /\ fw'[w].nOpen <= InitialCounter /\ fw'[w].nSleep <= InitialCounter
            /\ (InLoop(fw[w]) /\ fw'[w] # fw[w]) =>
                  /\ fw'[w].counter <= fw[w].counter
                  /\ fw'[w].nFail > fw[w].nFail => fw'[w].counter < fw[w].counter
                  /\ StepsLeft(fw'[w]) >= 0
                  /\ StepsLeft(fw'[w]) < StepsLeft(fw[w])
                  /\ fw'[w].pc \in {"open", "write", "done"}]_vars

\* C17's case: one worker has failed four attempts and is in its loop
\* still, while another, called with the same URL and path, has returned.
C17_Witness ==
    \E w, v \in Workers :
        /\ w # v
        /\ fw[w].pc = "open" /\ fw[w].nFail = 4 /\ fw[w].nSleep = 4
        /\ fw[v].pc = "done" /\ fw[v].ret.kind = "ds"
        /\ fw[v].url = fw[w].url /\ fw[v].path = fw[w].path

\* C18: when a fetch has returned data, the cache file at its path is a
\* completely written one: never a file that a failed write cut short.
C18_ReturnedDataCompletelyCached ==
    \A w \in Workers :
        (fw[w].pc = "done" /\ fw[w].ret.kind = "ds") =>
            cache[fw[w].path].kind \in {"ds", "old"}

====
